---------------------------- MODULE Spec2Model ----------------------------
(***************************************************************************)
(* Model of pyfda_fix_lib.py: class Fixed (setQobj, fixp, resetN,          *)
(* frmt2float, float2frmt) and the helpers bin2hex, dec2hex, dec2csd and   *)
(* csd2dec.                                                                *)
(*                                                                         *)
(* Numbers.  A Python / numpy float is modelled by the exact rational it   *)
(* holds, a record [n |-> numerator, d |-> denominator] in lowest terms    *)
(* with d > 0.  Every input of the model is a small dyadic rational (or    *)
(* -11/10), every scale is a power of two, so each float operation of the  *)
(* code is exact (or rounds to the same integer) on the modelled values.   *)
(*                                                                         *)
(* Text.  A Python string that the code inspects character by character    *)
(* is a sequence of one-character strings, <<"0", ".", "+">>.  Option      *)
(* values that are only compared as a whole ('sat', 'round', ...) are      *)
(* TLA+ strings.                                                           *)
(***************************************************************************)
EXTENDS Integers, Sequences, FiniteSets, TLC

VARIABLES self, call, prev, data_old

vars == <<self, call, prev, data_old>>

-----------------------------------------------------------------------------
(* Exact rational arithmetic standing for float64 arithmetic.              *)

Abs(i) == IF i < 0 THEN -i ELSE i

RECURSIVE GCD(_, _)
GCD(a, b) == IF b = 0 THEN a ELSE GCD(b, a % b)

Rat(n, d) ==
    LET g == GCD(Abs(n), Abs(d))
        s == IF d < 0 THEN -1 ELSE 1
    IN  [n |-> s * (n \div g), d |-> s * (d \div g)]

IntR(i) == [n |-> i, d |-> 1]
Zero == IntR(0)
One == IntR(1)

LCM(a, b) == (a \div GCD(a, b)) * b

RAdd(a, b) ==
    LET l == LCM(a.d, b.d)
    IN  Rat(a.n * (l \div a.d) + b.n * (l \div b.d), l)

RNeg(a) == [n |-> -a.n, d |-> a.d]

RSub(a, b) == RAdd(a, RNeg(b))

\* a * b with the common factors cancelled before the products are formed
CancelMul(an, ad, bn, bd, g1, g2) ==
    Rat((an \div g1) * (bn \div g2), (ad \div g2) * (bd \div g1))

NonZero(g) == IF g = 0 THEN 1 ELSE g

RMul(a, b) ==
    CancelMul(a.n, a.d, b.n, b.d,
              NonZero(GCD(Abs(a.n), b.d)), NonZero(GCD(Abs(b.n), a.d)))

\* b # 0
RDiv(a, b) == RMul(a, IF b.n < 0 THEN [n |-> -b.d, d |-> -b.n]
                                 ELSE [n |-> b.d, d |-> b.n])

RLt(a, b) ==
    LET l == LCM(a.d, b.d)
    IN  a.n * (l \div a.d) < b.n * (l \div b.d)

RLe(a, b) == ~RLt(b, a)
RGe(a, b) == ~RLt(a, b)
RGt(a, b) == RLt(b, a)

\* np.sign
RSign(a) == IF a.n > 0 THEN 1 ELSE IF a.n < 0 THEN -1 ELSE 0

\* np.floor: the largest integer <= a (TLA+ \div rounds down)
RFloor(a) == IntR(a.n \div a.d)

\* np.ceil
RCeil(a) == IntR(-((-a.n) \div a.d))

\* np.fix: round towards zero
RFix(a) == IF a.n >= 0 THEN RFloor(a) ELSE RCeil(a)

\* np.rint, and np.round with decimals = 0: nearest integer, ties to even
RRint(a) ==
    LET f == a.n \div a.d
        r2 == 2 * (a.n - f * a.d)
    IN  IF r2 < a.d THEN IntR(f)
        ELSE IF r2 > a.d THEN IntR(f + 1)
        ELSE IF f % 2 = 0 THEN IntR(f) ELSE IntR(f + 1)

IsInt(a) == a.d = 1

\* 2. ** k for an integer k of either sign
Pow2(k) == IF k >= 0 THEN IntR(2 ^ k) ELSE [n |-> 1, d |-> 2 ^ (-k)]


(* Evaluation note: a value that several parts of a definition use is    *)
(* passed on as an operator argument (evaluated once) rather than named in *)
(* a LET (evaluated at each use), so definitions are split into stages.    *)

-----------------------------------------------------------------------------
(* Values passed to and returned by the methods: a float, a string, None,  *)
(* or a one-dimensional array of floats.                                   *)

\* Every record of the module is written with its fields in the order in
\* which TLC keeps them, so that no record is rearranged after it is built.
Num(r) == [k |-> "num", r |-> r]
Str(s) == [s |-> s, k |-> "str"]
Arr(a) == [a |-> a, k |-> "arr"]
NoneV == [k |-> "none"]

-----------------------------------------------------------------------------
(* Text helpers: Python str operations on character sequences.             *)

DecDigits == <<"0", "1", "2", "3", "4", "5", "6", "7", "8", "9">>
HexDigits == DecDigits \o <<"A", "B", "C", "D", "E", "F">>

\* str.lower() on the characters the model uses
LowerChar(c) ==
    CASE c = "A" -> "a" [] c = "B" -> "b" [] c = "C" -> "c" [] c = "D" -> "d"
      [] c = "E" -> "e" [] c = "F" -> "f" [] c = "X" -> "x" [] OTHER -> c

\* the value of character c as a digit (either case of a hex letter), -1 if
\* it is none
CharVal(c) ==
    CASE c = "0" -> 0 [] c = "1" -> 1 [] c = "2" -> 2 [] c = "3" -> 3
      [] c = "4" -> 4 [] c = "5" -> 5 [] c = "6" -> 6 [] c = "7" -> 7
      [] c = "8" -> 8 [] c = "9" -> 9
      [] c \in {"A", "a"} -> 10 [] c \in {"B", "b"} -> 11
      [] c \in {"C", "c"} -> 12 [] c \in {"D", "d"} -> 13
      [] c \in {"E", "e"} -> 14 [] c \in {"F", "f"} -> 15
      [] OTHER -> -1

\* the value of c as a digit of the base, -1 if it is none
DigitVal(c, base) == IF CharVal(c) < base THEN CharVal(c) ELSE -1

\* position of the first occurrence of c in s, 0 if there is none
RECURSIVE FindFrom(_, _, _)
FindFrom(s, c, i) ==
    IF i > Len(s) THEN 0 ELSE IF s[i] = c THEN i ELSE FindFrom(s, c, i + 1)

Find(s, c) == FindFrom(s, c, 1)

CountChar(s, c) == Cardinality({i \in 1..Len(s) : s[i] = c})

\* s.replace(a, b) for single characters
ReplaceChar(s, a, b) == [i \in 1..Len(s) |-> IF s[i] = a THEN b ELSE s[i]]

\* re.sub(r'[^...]', '', s): keep the characters of the allow-list
KeepChars(s, allowed) == SelectSeq(s, LAMBDA c : c \in allowed)

\* s.replace(c, '')
RemoveChar(s, c) == SelectSeq(s, LAMBDA x : x # c)

\* s[a:b] of Python for 0 <= a, b (clipped at the ends)
Slice(s, a, b) ==
    IF a >= (IF b > Len(s) THEN Len(s) ELSE b) THEN <<>>
    ELSE SubSeq(s, a + 1, IF b > Len(s) THEN Len(s) ELSE b)

\* s.split('.', 1): the text before the first '.', and the text after it
BeforeDot(s) == IF Find(s, ".") = 0 THEN s ELSE SubSeq(s, 1, Find(s, ".") - 1)
AfterDot(s) == IF Find(s, ".") = 0 THEN <<>> ELSE SubSeq(s, Find(s, ".") + 1, Len(s))

\* the unsigned integer a string of digits of the base denotes
RECURSIVE DigitsVal(_, _)
DigitsVal(s, base) ==
    IF s = <<>> THEN 0
    ELSE DigitsVal(SubSeq(s, 1, Len(s) - 1), base) * base + DigitVal(s[Len(s)], base)

AllDigits(s, base) == s # <<>> /\ \A i \in 1..Len(s) : DigitVal(s[i], base) >= 0

HasSign(s) == s # <<>> /\ s[1] \in {"+", "-"}
Unsigned(s) == IF HasSign(s) THEN Tail(s) ELSE s
SignOf(s) == IF HasSign(s) /\ s[1] = "-" THEN -1 ELSE 1

\* int(text, base) for text over the model's alphabet: an optional sign, then
\* one or more digits of the base.  [ok |-> FALSE] stands for ValueError.
ParseInt(s, base) ==
    IF AllDigits(Unsigned(s), base)
    THEN [ok |-> TRUE, v |-> SignOf(s) * DigitsVal(Unsigned(s), base)]
    ELSE [ok |-> FALSE, v |-> 0]

\* the float of sign, integer digits ip and fraction digits fp
ParseParts(sign, ip, fp) ==
    IF AllDigits(ip \o fp, 10)
    THEN [ok |-> TRUE, v |-> Rat(sign * DigitsVal(ip \o fp, 10), 10 ^ Len(fp))]
    ELSE [ok |-> FALSE, v |-> Zero]

\* float(text) for text over the model's alphabet: an optional sign, digits
\* with at most one '.', at least one digit.  [ok |-> FALSE] is ValueError.
ParseFloat(s) == ParseParts(SignOf(s), BeforeDot(Unsigned(s)), AfterDot(Unsigned(s)))

-----------------------------------------------------------------------------
(* Fixed.setQobj                                                           *)

KnownKeys == {"Q", "WF", "WI", "quant", "ovfl", "frmt", "scale"}

QUANTS == {"floor", "round", "fix", "ceil", "rint", "none"}
OVFLS == {"wrap", "sat", "none"}
FRMTS == {"dec", "bin", "csd", "hex", "float"}

q_obj_default ==
    [WI |-> 0, WF |-> 15, quant |-> "round", ovfl |-> "sat",
     frmt |-> "float", scale |-> One]

\* str(x).lower() on the option values the model supplies
Lower(v) ==
    CASE v = "SAT" -> "sat" [] v = "Wrap" -> "wrap" [] v = "Round" -> "round"
      [] v = "FLOOR" -> "floor" [] v = "HEX" -> "hex" [] v = "Bin" -> "bin"
      [] OTHER -> v

\* the overflow flag of a scalar call (an int) or of an array call
ScalarFlag(f) == [f |-> <<f>>, k |-> "int"]
ArrayFlag(fs) == [f |-> fs, k |-> "arr"]

\* 'Q': 'WI.WF' is split at its first '.', both halves go through int();
\* ok = FALSE is the IndexError (no '.') or ValueError (no integer) raised
QParts(hasDot, i, f) ==
    [ok |-> hasDot /\ i.ok /\ f.ok, WI |-> i.v, WF |-> Abs(f.v)]

ParseQ(Q) ==
    QParts(Find(Q, ".") # 0, ParseInt(BeforeDot(Q), 10), ParseInt(AfterDot(Q), 10))

\* int(np.ceil(np.log10(W) * np.log10(2.))) + 1 for 1 <= W <= 2098
\* (log10(W) * log10(2) is 0 for W = 1 and in (0, 1] up to W = 2098)
DecPlaces(W) == IF W = 1 THEN 1 ELSE 2

\* int(np.ceil(W / 4.)) + 1
HexPlaces(W) == -((-W) \div 4) + 1

\* The attributes an instance has before __init__ has run: none.  The record
\* only gives the fields something to hold until setQobj stores them.
NoAttrs ==
    [base |-> 0, WI |-> 0, WF |-> 0, quant |-> "", ovfl |-> "", frmt |-> "",
     scale |-> One, W |-> 0, LSB |-> One, MSB |-> One, MAX |-> One,
     MIN |-> One, places |-> 0, ovr_flag |-> ScalarFlag(0),
     N_over |-> 0, N_over_neg |-> 0, N_over_pos |-> 0]

\* Mutation of FillKey for C14: a missing key is always taken from the
\* defaults
FillKeyDefault(s, q_obj, k, fresh) ==
    IF k \in DOMAIN q_obj THEN q_obj[k] ELSE q_obj_default[k]

\* lines 402-407: a missing key is taken from the instance attribute if the
\* instance has it (fresh = FALSE), else from the defaults
FillKey(s, q_obj, k, fresh) ==
    IF k \in DOMAIN q_obj THEN q_obj[k]
    ELSE IF fresh THEN q_obj_default[k] ELSE s[k]

\* lines 436-452: places and base of a format
PlacesOf(frmt, W) ==
    CASE frmt = "dec" -> DecPlaces(W)
      [] frmt = "bin" -> W + 1
      [] frmt = "csd" -> W + 1
      [] frmt = "hex" -> HexPlaces(W)
      [] OTHER -> 4

BaseOf(frmt) ==
    CASE frmt = "dec" -> 10 [] frmt = "bin" -> 2 [] frmt = "csd" -> 2
      [] frmt = "hex" -> 16 [] OTHER -> 0

\* Mutation of StoreParams for C9: quant and ovfl are validated, and an
\* unrecognized value is not stored (the attribute keeps its value)
StoreParamsValidated(s, WI, WF, quant, ovfl, frmt, scale) ==
    [s EXCEPT !.WI = WI, !.WF = Abs(WF), !.W = Abs(WF) + WI + 1,
              !.quant = IF Lower(quant) \in QUANTS THEN Lower(quant) ELSE s.quant,
              !.ovfl = IF Lower(ovfl) \in OVFLS THEN Lower(ovfl) ELSE s.ovfl,
              !.frmt = Lower(frmt), !.scale = scale,
              !.LSB = Pow2(-Abs(WF)), !.MSB = Pow2(WI - 1),
              !.MAX = RSub(RMul(IntR(2), Pow2(WI - 1)), Pow2(-Abs(WF))),
              !.MIN = RNeg(RMul(IntR(2), Pow2(WI - 1)))]

\* lines 418-432: the attributes stored before the format is looked at
StoreParams(s, WI, WF, quant, ovfl, frmt, scale) ==
    [s EXCEPT !.WI = WI, !.WF = Abs(WF), !.W = Abs(WF) + WI + 1,
              !.quant = Lower(quant), !.ovfl = Lower(ovfl),
              !.frmt = Lower(frmt), !.scale = scale,
              !.LSB = Pow2(-Abs(WF)), !.MSB = Pow2(WI - 1),
              !.MAX = RSub(RMul(IntR(2), Pow2(WI - 1)), Pow2(-Abs(WF))),
              !.MIN = RNeg(RMul(IntR(2), Pow2(WI - 1)))]

\* lines 436-452: does the format branch raise (unknown format; for 'dec'
\* log10 of W <= 0 is -inf or nan, which int() rejects)
FrmtRaises(s) == s.frmt \notin FRMTS \/ (s.frmt = "dec" /\ s.W <= 0)

\* Mutation of SetPlaces for C5: the set operation also zeroes the overflow
\* counters, as __init__ does
SetPlacesResetN(s1) ==
    IF FrmtRaises(s1) THEN [self |-> s1, raised |-> TRUE]
    ELSE [self |-> [s1 EXCEPT !.places = PlacesOf(s1.frmt, s1.W),
                              !.base = BaseOf(s1.frmt),
                              !.ovr_flag = ScalarFlag(0),
                              !.N_over = 0, !.N_over_neg = 0, !.N_over_pos = 0],
          raised |-> FALSE]

\* lines 434-454 on the instance s1 that holds the stored parameters
SetPlaces(s1) ==
    IF FrmtRaises(s1) THEN [self |-> s1, raised |-> TRUE]
    ELSE [self |-> [s1 EXCEPT !.places = PlacesOf(s1.frmt, s1.W),
                              !.base = BaseOf(s1.frmt),
                              !.ovr_flag = ScalarFlag(0)],
          raised |-> FALSE]

\* lines 397-454, Qp being the parsed 'Q' (its WI and WF take precedence)
SetFrom(s, q_obj, fresh, hasQ, Qp) ==
    IF ~Qp.ok THEN [self |-> s, raised |-> TRUE]
    ELSE SetPlaces(StoreParams(s,
             IF hasQ THEN Qp.WI ELSE FillKey(s, q_obj, "WI", fresh),
             IF hasQ THEN Qp.WF ELSE FillKey(s, q_obj, "WF", fresh),
             FillKey(s, q_obj, "quant", fresh),
             FillKey(s, q_obj, "ovfl", fresh),
             FillKey(s, q_obj, "frmt", fresh),
             FillKey(s, q_obj, "scale", fresh)))

\* setQobj as a whole: [raised, self] where self is the instance afterwards
setQobj(s, q_obj, fresh) ==
    IF DOMAIN q_obj \ KnownKeys # {} THEN [self |-> s, raised |-> TRUE]
    ELSE SetFrom(s, q_obj, fresh, "Q" \in DOMAIN q_obj,
                 IF "Q" \in DOMAIN q_obj THEN ParseQ(q_obj["Q"])
                 ELSE [ok |-> TRUE, WI |-> 0, WF |-> 0])

\* resetN
resetN(s) == [s EXCEPT !.N_over = 0, !.N_over_neg = 0, !.N_over_pos = 0]

-----------------------------------------------------------------------------
(* Fixed.fixp                                                              *)

\* lines 530-548: a scalar argument that is no number.  None and '' become
\* 0; a string goes through float(), then complex() (which accepts nothing
\* more over the model's alphabet), then becomes 0.0.
CoerceScalar(v) ==
    CASE v.k = "num" -> v.r
      [] v.k = "none" -> Zero
      [] v.k = "str" -> IF v.s = <<>> THEN Zero ELSE ParseFloat(v.s).v

\* lines 559-561: y / LSB, times scale when scaling = 'mult'
ScaleIn(s, y, scaling) ==
    IF scaling = "mult" THEN RMul(RDiv(y, s.LSB), s.scale) ELSE RDiv(y, s.LSB)

\* lines 563-573: the requantization of y (in units of LSB)
Quantize(quant, y) ==
    CASE quant = "floor" -> RFloor(y)
      [] quant = "round" -> RRint(y)
      [] quant = "fix" -> RFix(y)
      [] quant = "ceil" -> RCeil(y)
      [] quant = "rint" -> RRint(y)
      [] quant = "none" -> y

\* lines 559-579: the quantized value yq, before overflow handling
Requant(s, y, scaling) == RMul(Quantize(s.quant, ScaleIn(s, y, scaling)), s.LSB)

\* lines 588-589
OverNeg(s, yq) == RLt(yq, s.MIN)
OverPos(s, yq) == RGe(yq, s.MAX)

\* line 591: over_pos.astype(int) - over_neg.astype(int)
FlagOf(s, yq) ==
    (IF OverPos(s, yq) THEN 1 ELSE 0) - (IF OverNeg(s, yq) THEN 1 ELSE 0)

\* Mutation of Saturate for C6: a symmetric saturation, clipping at -MAX
SaturateSymmetric(s, yq) ==
    IF OverNeg(s, yq) THEN RNeg(s.MAX) ELSE IF OverPos(s, yq) THEN s.MAX ELSE yq

\* lines 599-600: the two np.where in their order
Saturate(s, yq) ==
    IF OverNeg(s, yq) THEN s.MIN ELSE IF OverPos(s, yq) THEN s.MAX ELSE yq

\* lines 603-604
Wrap(s, yq) ==
    IF OverPos(s, yq) \/ OverNeg(s, yq)
    THEN RSub(yq,
              RMul(RMul(IntR(4), s.MSB),
                   RFix(RDiv(RAdd(RMul(IntR(RSign(yq) * 2), s.MSB), yq),
                             RMul(IntR(4), s.MSB)))))
    ELSE yq

\* lines 584-606 for one element: the value after overflow handling
Overflow(s, yq) ==
    CASE s.ovfl = "none" -> yq
      [] s.ovfl = "sat" -> Saturate(s, yq)
      [] s.ovfl = "wrap" -> Wrap(s, yq)
      [] OTHER -> yq

\* lines 609-610
ScaleOut(s, yq, scaling) == IF scaling = "div" THEN RDiv(yq, s.scale) ELSE yq

\* Mutation of Count for C4: the total is advanced by the positive overflows
\* only
CountPosOnly(s, neg, pos) ==
    [s EXCEPT !.N_over_neg = s.N_over_neg + neg,
              !.N_over_pos = s.N_over_pos + pos,
              !.N_over = s.N_over + pos]

\* lines 593-595: the counters after neg negative and pos positive overflows
Count(s, neg, pos) ==
    [s EXCEPT !.N_over_neg = s.N_over_neg + neg,
              !.N_over_pos = s.N_over_pos + pos,
              !.N_over = (s.N_over_neg + neg) + (s.N_over_pos + pos)]

\* lines 588-595: flags and counters after a call with quantized values yqs
Account(s, yqs, SCALAR) ==
    Count([s EXCEPT !.ovr_flag =
                IF SCALAR THEN ScalarFlag(FlagOf(s, yqs[1]))
                ELSE ArrayFlag([i \in 1..Len(yqs) |-> FlagOf(s, yqs[i])])],
          Cardinality({i \in 1..Len(yqs) : OverNeg(s, yqs[i])}),
          Cardinality({i \in 1..Len(yqs) : OverPos(s, yqs[i])}))

\* lines 510, 548: the flag is cleared as the call starts
ClearFlag(s, n, SCALAR) ==
    [s EXCEPT !.ovr_flag = IF SCALAR THEN ScalarFlag(0)
                           ELSE ArrayFlag([i \in 1..n |-> 0])]

\* Mutation of FixpOverflow for C15: ovfl = 'none' returns the values
\* unclamped but goes through the flag and counter update
FixpOverflowCounted(s0, yqs, scaling, SCALAR) ==
    IF s0.ovfl \notin OVFLS
    THEN [self |-> Account(s0, yqs, SCALAR), raised |-> TRUE, ret |-> <<>>]
    ELSE [self |-> Account(s0, yqs, SCALAR),
          raised |-> FALSE,
          ret |-> [i \in 1..Len(yqs) |->
                      ScaleOut(s0, Overflow(s0, yqs[i]), scaling)]]

\* lines 583-615 on the quantized values yqs; s0 is the instance with its
\* flag cleared
FixpOverflow(s0, yqs, scaling, SCALAR) ==
    IF s0.ovfl = "none"
    THEN [self |-> s0,
          raised |-> FALSE,
          ret |-> [i \in 1..Len(yqs) |-> ScaleOut(s0, yqs[i], scaling)]]
    ELSE IF s0.ovfl \notin OVFLS
    THEN [self |-> Account(s0, yqs, SCALAR), raised |-> TRUE, ret |-> <<>>]
    ELSE [self |-> Account(s0, yqs, SCALAR),
          raised |-> FALSE,
          ret |-> [i \in 1..Len(yqs) |->
                      ScaleOut(s0, Overflow(s0, yqs[i]), scaling)]]

\* lines 557-615 on the instance s0 with its flag cleared
FixpQuant(s0, ys, scaling, SCALAR) ==
    IF s0.quant \notin QUANTS
    THEN [self |-> s0, raised |-> TRUE, ret |-> <<>>]
    ELSE FixpOverflow(s0, [i \in 1..Len(ys) |-> Requant(s0, ys[i], scaling)],
                      scaling, SCALAR)

\* fixp as a whole on the numeric elements ys (one element with SCALAR for a
\* scalar call): [raised, ret, self].  ret is the sequence of returned
\* values, <<>> when the call raises.
fixp(s, ys, scaling, SCALAR) ==
    FixpQuant(ClearFlag(s, Len(ys), SCALAR), ys, scaling, SCALAR)

-----------------------------------------------------------------------------
(* Number to text: str(), "{0:X}".format(), np.binary_repr                 *)

\* the digits of n >= 0 in the base, most significant first, no padding
RECURSIVE NatDigits(_, _)
NatDigits(n, base) ==
    IF n < base THEN <<HexDigits[n + 1]>>
    ELSE NatDigits(n \div base, base) \o <<HexDigits[(n % base) + 1]>>

\* str(i) of an integer
IntStr(i) == IF i < 0 THEN <<"-">> \o NatDigits(-i, 10) ELSE NatDigits(i, 10)

\* the decimal digits after the point of rem / d (rem < d), at most 17
RECURSIVE FracDigits(_, _, _)
FracDigits(rem, d, left) ==
    IF rem = 0 \/ left = 0 THEN <<>>
    ELSE <<HexDigits[((rem * 10) \div d) + 1]>>
             \o FracDigits((rem * 10) % d, d, left - 1)

\* '.0' when no digit follows the point
OrZero(fd) == IF fd = <<>> THEN <<"0">> ELSE fd

\* str(x) of a float x whose decimal expansion ends and that is printed in
\* positional notation (1e-4 <= |x| < 1e16 or x = 0): '-1.09375', '2.0'
FloatStr(r) ==
    (IF r.n < 0 THEN <<"-">> ELSE <<>>)
      \o NatDigits(Abs(r.n) \div r.d, 10) \o <<".">>
      \o OrZero(FracDigits(Abs(r.n) % r.d, r.d, 17))

\* np.int64(x) of a float: truncation towards zero
TruncInt(r) == RFix(r).n

\* '0' * n, '1' * n
Repeat(c, n) == [i \in 1..n |-> c]

\* str.zfill / the sign extension of np.binary_repr
PadLeft(c, b, width) == Repeat(c, width - Len(b)) \o b

\* the number of bits np.binary_repr takes for -num > 0: len(bin(-num)[2:]),
\* one less for a power of two
PosWidth(m, pw0) == IF 2 ^ (pw0 - 1) = m THEN pw0 - 1 ELSE pw0

\* np.binary_repr(num, width): two's complement for num < 0; a number that
\* does not fit is returned in as many bits as it needs
binary_repr(num, width) ==
    IF num >= 0 THEN PadLeft("0", NatDigits(num, 2), width)
    ELSE PadLeft("1",
                 NatDigits(2 ^ (PosWidth(-num, Len(NatDigits(-num, 2))) + 1) + num, 2),
                 width)

-----------------------------------------------------------------------------
(* bin2hex, dec2hex                                                        *)

\* str.strip("0"): zeros are removed at both ends
RECURSIVE LStrip0(_)
LStrip0(s) == IF s # <<>> /\ Head(s) = "0" THEN LStrip0(Tail(s)) ELSE s

RECURSIVE RStrip0(_)
RStrip0(s) ==
    IF s # <<>> /\ s[Len(s)] = "0" THEN RStrip0(SubSeq(s, 1, Len(s) - 1)) ELSE s

Strip0(s) == RStrip0(LStrip0(s))

\* lines 66-67: zeros are prepended until the length is a multiple of 4
PadNibbles(bin_str) == Repeat("0", (4 - (Len(bin_str) % 4)) % 4) \o bin_str

\* lines 45-60: wmap on a group of four bits
wmap(g) == HexDigits[DigitsVal(g, 2) + 1]

\* lines 69-71: one hex digit for each group of four bits of p
MapNibbles(p) == [i \in 1..(Len(p) \div 4) |-> wmap(SubSeq(p, 4 * i - 3, 4 * i))]

\* line 74
ZeroIfEmpty(hex_str) == IF Len(hex_str) = 0 THEN <<"0">> ELSE hex_str

\* bin2hex(bin_str) for a string of '0' and '1'
bin2hex(bin_str) == ZeroIfEmpty(Strip0(MapNibbles(PadNibbles(bin_str))))

\* dec2hex(val, nbits)
dec2hex(val, nbits) == NatDigits((val + 2 ^ nbits) % (2 ^ nbits), 16)

-----------------------------------------------------------------------------
(* dec2csd, csd2dec                                                        *)

\* the smallest k >= from with 2 ** k >= x
RECURSIVE CeilLog2From(_, _)
CeilLog2From(x, from) ==
    IF RGe(Pow2(from), x) THEN from ELSE CeilLog2From(x, from + 1)

RAbs(a) == [n |-> Abs(a.n), d |-> a.d]

\* lines 128-131: k = 0 below 1, else int(np.ceil(np.log2(|dec_val| * 1.5)))
CsdStartExp(dec_val) ==
    IF RLt(RAbs(dec_val), One) THEN 0
    ELSE CeilLog2From(RMul(RAbs(dec_val), Rat(3, 2)), 0)

\* line 143: pow(2.0, k+1) / 3.0
CsdLimit(k) == RDiv(Pow2(k + 1), IntR(3))

\* Mutation of CsdDigits for C12: the digit after a non-zero digit is not
\* forced to '0'
RECURSIVE CsdDigitsGreedy(_, _, _, _)
CsdDigitsGreedy(remainder, k, WF, prev_non_zero) ==
    IF k < -WF THEN <<>>
    ELSE (IF k = -1 THEN <<".">> ELSE <<>>) \o
         (IF RGt(remainder, CsdLimit(k))
          THEN <<"+">> \o CsdDigitsGreedy(RSub(remainder, Pow2(k)), k - 1, WF, TRUE)
          ELSE IF RLt(remainder, RNeg(CsdLimit(k)))
          THEN <<"-">> \o CsdDigitsGreedy(RAdd(remainder, Pow2(k)), k - 1, WF, TRUE)
          ELSE <<"0">> \o CsdDigitsGreedy(remainder, k - 1, WF, FALSE))

\* lines 141-170: the digits for the exponents k, k-1, ..., -WF
RECURSIVE CsdDigits(_, _, _, _)
CsdDigits(remainder, k, WF, prev_non_zero) ==
    IF k < -WF THEN <<>>
    ELSE (IF k = -1 THEN <<".">> ELSE <<>>) \o
         (IF prev_non_zero
          THEN <<"0">> \o CsdDigits(remainder, k - 1, WF, FALSE)
          ELSE IF RGt(remainder, CsdLimit(k))
          THEN <<"+">> \o CsdDigits(RSub(remainder, Pow2(k)), k - 1, WF, TRUE)
          ELSE IF RLt(remainder, RNeg(CsdLimit(k)))
          THEN <<"-">> \o CsdDigits(RAdd(remainder, Pow2(k)), k - 1, WF, TRUE)
          ELSE <<"0">> \o CsdDigits(remainder, k - 1, WF, FALSE))

\* dec2csd(dec_val, WF)
dec2csd(dec_val, WF) ==
    IF dec_val = Zero THEN <<"0">>
    ELSE (IF RLt(RAbs(dec_val), One) THEN <<"0">> ELSE <<>>)
           \o CsdDigits(dec_val, CsdStartExp(dec_val) - 1, WF, FALSE)

\* line 228: the characters re.sub('[+-0 ]', '', s) removes: the range from
\* '+' to '0' and the blank
CsdLegal == {"+", ",", "-", ".", "/", "0", " "}

\* lines 234-243: the sum over the digits from position ii (0-based) on
RECURSIVE CsdSum(_, _, _)
CsdSum(csd_str, msb_power, ii) ==
    IF ii >= Len(csd_str) THEN Zero
    ELSE IF csd_str[ii + 1] = "+"
    THEN RAdd(CsdSum(csd_str, msb_power, ii + 1), Pow2(msb_power - ii))
    ELSE IF csd_str[ii + 1] = "-"
    THEN RSub(CsdSum(csd_str, msb_power, ii + 1), Pow2(msb_power - ii))
    ELSE CsdSum(csd_str, msb_power, ii + 1)

\* lines 224-248 on the joined string and the integer part
CsdValue(joined, int_str) ==
    IF \E i \in 1..Len(joined) : joined[i] \notin CsdLegal
    THEN [ok |-> FALSE, v |-> Zero]
    ELSE [ok |-> TRUE, v |-> CsdSum(joined, Len(int_str) - 1, 0)]

\* csd2dec(csd_str): [ok |-> FALSE] is the None returned on an illegal
\* character.  Only a string with exactly one '.' is split and joined
\* (lines 217-222: any other number of parts is a ValueError).
csd2dec(csd_str) ==
    IF CountChar(csd_str, ".") = 1
    THEN CsdValue(RemoveChar(csd_str, "."), BeforeDot(csd_str))
    ELSE CsdValue(csd_str, csd_str)

-----------------------------------------------------------------------------
(* Fixed.frmt2float                                                        *)

\* lines 376-381: the characters each FRMT_REGEX keeps ('|' is one of them)
FrmtAllowed(frmt) ==
    CASE frmt = "bin" -> {"0", "1", "|", ".", ",", "-"}
      [] frmt = "csd" -> {"0", "|", "+", "-", ".", ","}
      [] frmt = "dec" -> {DecDigits[i] : i \in 1..10} \cup {"|", ".", ",", "-"}
      [] frmt = "hex" -> {HexDigits[i] : i \in 1..16}
                           \cup {LowerChar(HexDigits[i]) : i \in 1..16}
                           \cup {"|", ".", ",", "-"}

\* base ** e of Python integers (0 ** 0 = 1)
PyPow(base, e) == IF e = 0 THEN 1 ELSE IF base = 0 THEN 0 ELSE base ^ e

\* a decimal literal has no leading zero unless it is zero
DecLiteral(body) ==
    AllDigits(body, 10) /\ (body[1] # "0" \/ LStrip0(body) = <<>>)

\* int(raw_str, base) over the model's alphabet (no '0x' / '0b' prefixes, no
\* blanks, no '_'): base 0 reads a decimal literal
IntBase(raw_str, base) ==
    IF base = 0
    THEN IF DecLiteral(Unsigned(raw_str)) THEN ParseInt(raw_str, 10)
         ELSE [ok |-> FALSE, v |-> 0]
    ELSE ParseInt(raw_str, base)

\* lines 700-703, 753-758: the value returned when there is no y_float
Fallback(fb) == IF fb # NoneV THEN fb ELSE Num(Zero)

\* lines 682-683
PrependZero(v) == IF v[1] = "." THEN <<"0">> \o v ELSE v

\* lines 680-683: the cleaned string
CleanStr(kept) == PrependZero(ReplaceChar(kept, ",", "."))

\* lines 684-688: val_str.split('.') gives two parts only for exactly one '.'
IntPart(val_str) == IF CountChar(val_str, ".") = 1 THEN BeforeDot(val_str) ELSE val_str
FrcPart(val_str) == IF CountChar(val_str, ".") = 1 THEN AfterDot(val_str) ELSE <<>>

\* a branch that ended in its except clause / with None
NoFloat(s) == [self |-> s, ok |-> FALSE, v |-> Zero]

\* y_float of a fixp call: None if fixp raised (lines 713-715, 733-736)
FixpValue(r) ==
    IF r.raised THEN NoFloat(r.self) ELSE [self |-> r.self, ok |-> TRUE, v |-> r.ret[1]]

\* lines 727-730: the two's complement of a number at or above the limit
TwosComp(y0, lim) == IF RGe(y0, IntR(lim)) THEN RSub(y0, IntR(2 * lim)) ELSE y0

\* lines 723-736 given i = int(raw_str, self.base), den = base ** frc_places
\* and lim = base ** int_places: ValueError of int() and ZeroDivisionError
\* are caught at line 733
BinHexFrom(s, i, den, lim) ==
    IF ~i.ok \/ den = 0 THEN NoFloat(s)
    ELSE FixpValue(fixp(s, <<TwosComp(Rat(i.v, den), lim)>>, "div", TRUE))

\* lines 717-736: the bin / hex branch; the base is the instance's
BinHex2float(s, raw_str, int_places, frc_places) ==
    BinHexFrom(s, IntBase(raw_str, s.base), PyPow(s.base, frc_places),
               PyPow(s.base, int_places))

\* lines 709-715: the dec branch
Dec2float(s, val_str) ==
    FixpValue(fixp(s, <<CoerceScalar(Str(val_str))>>, "div", TRUE))

\* lines 743-744
CsdScaled(s, c) == [self |-> s, ok |-> c.ok, v |-> RDiv(c.v, Pow2(s.W - 1))]

\* lines 741-744: the csd branch
Csd2float(s, raw_str) == CsdScaled(s, csd2dec(raw_str))

\* lines 753-758 on the outcome c of the format's branch
Frmt2floatRet(c, fb) ==
    [self |-> c.self, raised |-> FALSE,
     ret |-> IF c.ok THEN Num(c.v) ELSE Fallback(fb)]

\* lines 706-758 on the cleaned string
Frmt2floatVal(s, f, val_str, fb) ==
    Frmt2floatRet(
        CASE f = "dec" -> Dec2float(s, val_str)
          [] f = "csd" -> Csd2float(s, RemoveChar(val_str, "."))
          [] OTHER -> BinHex2float(s, RemoveChar(val_str, "."),
                                   Len(IntPart(val_str)) - 1, Len(FrcPart(val_str))),
        fb)

\* lines 678-703 on what the regular expression kept
Frmt2floatKept(s, f, kept, fb) ==
    IF Len(kept) = 0 THEN [self |-> s, raised |-> FALSE, ret |-> Fallback(fb)]
    ELSE Frmt2floatVal(s, f, CleanStr(kept), fb)

\* lines 662-670: np.float64(y); None when the text is no float
FloatOf(p) == IF p.ok THEN Num(p.v) ELSE NoneV

\* lines 660-758 for the lower-case format f; a format without FRMT_REGEX
\* entry is a KeyError at line 677
Frmt2floatIn(s, y, f, fb) ==
    IF f = "float"
    THEN [self |-> s, raised |-> FALSE,
          ret |-> IF y.k = "num" THEN y ELSE FloatOf(ParseFloat(y.s))]
    ELSE IF f \notin {"dec", "bin", "hex", "csd"}
    THEN [self |-> s, raised |-> TRUE, ret |-> NoneV]
    ELSE Frmt2floatKept(s, f, KeepChars(y.s, FrmtAllowed(f)), fb)

\* frmt2float(y, frmt) as a whole: [raised, ret, self].  y is a string, or a
\* float for the format 'float'; frmt = "None" is the omitted argument; fb is
\* fb.data_old.  qstr(y) of a string is the string.
frmt2float(s, y, frmt, fb) ==
    IF y = Str(<<>>) THEN [self |-> s, raised |-> FALSE, ret |-> Num(Zero)]
    ELSE Frmt2floatIn(s, y, IF frmt = "None" THEN s.frmt ELSE Lower(frmt), fb)

-----------------------------------------------------------------------------
(* Fixed.float2frmt                                                        *)

\* line 799: bin_str[:pos+1] + "." + bin_str[pos+1:]
insert_binary_point(bin_str, pos) ==
    Slice(bin_str, 0, pos + 1) \o <<".">> \o Slice(bin_str, pos + 1, Len(bin_str))

\* lines 840-844
BinStr(s, b) == IF s.WF > 0 THEN insert_binary_point(b, s.WI) ELSE b

\* lines 826-844: the bin / hex text of y_fix: [raised, str].  For 'hex'
\* with WF > 0 line 835 calls bin2hex(..., frac=True), a keyword bin2hex does
\* not have: TypeError.
BinHexStr(s, y_fix) ==
    IF s.frmt = "hex"
    THEN IF s.WF > 0 THEN [raised |-> TRUE, str |-> <<>>]
         ELSE [raised |-> FALSE, str |-> dec2hex(TruncInt(y_fix), s.W)]
    ELSE [raised |-> FALSE,
          str |-> BinStr(s, binary_repr(RRint(RDiv(y_fix, s.LSB)).n, s.W))]

\* Mutation of DecStr for C13: the text of the integer y_fix / LSB
DecStrScaled(s, y_fix) == IntStr(RRint(RDiv(y_fix, s.LSB)).n)

\* lines 815-819: the dec text of y_fix
DecStr(s, y_fix) == IF s.WF = 0 THEN IntStr(TruncInt(y_fix)) ELSE FloatStr(y_fix)

\* lines 815-844: y_str of y_fix in the format of the instance
YStr(s, y_fix) ==
    CASE s.frmt = "dec" -> [raised |-> FALSE, str |-> DecStr(s, y_fix)]
      [] s.frmt = "csd" -> [raised |-> FALSE, str |-> dec2csd(y_fix, s.WF)]
      [] OTHER -> BinHexStr(s, y_fix)

\* line 850, or the exception of line 835
Encoded(s, ys) ==
    [self |-> s, raised |-> ys.raised,
     ret |-> IF ys.raised THEN NoneV ELSE Str(ys.str)]

\* lines 813-850 on the outcome r of fixp(y, scaling='mult')
Encode(r) ==
    IF r.raised THEN [self |-> r.self, raised |-> TRUE, ret |-> NoneV]
    ELSE Encoded(r.self, YStr(r.self, r.ret[1]))

\* float2frmt(y) of a float y as a whole: [raised, ret, self]
float2frmt(s, y) ==
    IF s.frmt = "float" THEN [self |-> s, raised |-> FALSE, ret |-> Num(y)]
    ELSE IF s.frmt \notin {"hex", "bin", "dec", "csd"}
    THEN [self |-> s, raised |-> TRUE, ret |-> NoneV]
    ELSE Encode(fixp(s, <<y>>, "mult", TRUE))

-----------------------------------------------------------------------------
(* State.                                                                  *)
(*   self      the attributes of one Fixed instance                        *)
(*   call      the last method call: its name, arguments, result           *)
(*   prev      the call before it, kept only by the two-call actions       *)
(*             (fixp on fixp's result, frmt2float on float2frmt's result)  *)
(*   data_old  fb.data_old, the fallback value of the filter broker        *)

NoCall == [raised |-> FALSE, ret |-> NoneV, op |-> "init", arg |-> NoneV, mode |-> ""]

Call(op, arg, mode, ret, raised) ==
    [raised |-> raised, ret |-> ret, op |-> op, arg |-> arg, mode |-> mode]

\* the argument of fixp as the sequence of its elements
Elems(y) == IF y.k = "arr" THEN y.a ELSE <<y.r>>

\* the result of fixp shaped like its argument
Shaped(y, r) ==
    [self |-> r.self, raised |-> r.raised,
     ret |-> IF r.raised THEN NoneV
             ELSE IF y.k = "arr" THEN Arr(r.ret) ELSE Num(r.ret[1])]

\* the outcome of setQobj as the outcome of a call without return value
NoReturn(r) == [self |-> r.self, raised |-> r.raised, ret |-> NoneV]

\* __init__(q_obj): setQobj on an instance without attributes, then resetN
Constructed(q_obj) == resetN(setQobj(NoAttrs, q_obj, TRUE).self)

InitWith(ctor_objs, fallbacks) ==
    /\ \E q_obj \in ctor_objs :
          /\ ~setQobj(NoAttrs, q_obj, TRUE).raised
          /\ self = Constructed(q_obj)
    /\ call = NoCall
    /\ prev = NoCall
    /\ data_old \in fallbacks

\* the step of a method call with outcome r; before is the call it follows
\* in a two-call action
Step(op, arg, mode, r, before) ==
    /\ self' = r.self
    /\ call' = Call(op, arg, mode, r.ret, r.raised)
    /\ prev' = before
    /\ UNCHANGED data_old

\* myQ.setQobj(q_obj)
SetQobj(q_obj) ==
    Step("setQobj", q_obj, "", NoReturn(setQobj(self, q_obj, FALSE)), NoCall)

\* myQ.fixp(y, scaling) for a float or an array of floats
Fixp(y, scaling) ==
    Step("fixp", y, scaling,
         Shaped(y, fixp(self, Elems(y), scaling, y.k # "arr")), NoCall)

\* myQ.fixp(myQ.fixp(y, scaling), scaling): the second call
FixpAgain ==
    /\ call.op = "fixp" /\ ~call.raised /\ prev = NoCall
    /\ Step("fixp", call.ret, call.mode,
            Shaped(call.ret, fixp(self, Elems(call.ret), call.mode, call.ret.k # "arr")),
            call)

\* myQ.resetN()
ResetN ==
    Step("resetN", NoneV, "", [self |-> resetN(self), raised |-> FALSE, ret |-> NoneV],
         NoCall)

\* myQ.frmt2float(y, frmt)
Frmt2float(y, frmt) ==
    Step("frmt2float", y, frmt, frmt2float(self, y, frmt, data_old), NoCall)

\* myQ.float2frmt(y) for a float y
Float2frmt(y) ==
    Step("float2frmt", Num(y), "", float2frmt(self, y), NoCall)

\* myQ.frmt2float(myQ.float2frmt(y), myQ.frmt): the second call
Frmt2floatBack ==
    /\ call.op = "float2frmt" /\ ~call.raised /\ prev = NoCall
    /\ Step("frmt2float", call.ret, self.frmt,
            frmt2float(self, call.ret, self.frmt, data_old), call)

-----------------------------------------------------------------------------
(* Bounds and input sets.                                                  *)

\* word lengths: WI in -1..MaxWI, WF in 0..MaxWF
MaxWI == 1
MaxWF == 1
\* inputs: the multiples of 2 ** -InBits in [-MaxIn, MaxIn]
MaxIn == 3
InBits == 2

Scales == {Rat(1, 2), One, IntR(2)}

InputVals ==
    {Rat(n, 2 ^ InBits) : n \in (-(MaxIn * 2 ^ InBits))..(MaxIn * 2 ^ InBits)}
        \cup {Rat(5, 2), IntR(-3), IntR(-6), Rat(-11, 10)}

\* the configuration of the docstring example of fixp (line 484)
ExampleQ(ovfl) == [WI |-> 1, WF |-> 6, quant |-> "round", ovfl |-> ovfl]

-----------------------------------------------------------------------------
(* SpecFixp: one instance of any configuration, fixp(y) and then           *)
(* fixp(fixp(y)).                                                          *)

FixpCtorObjs ==
    {[WI |-> wi, WF |-> wf, quant |-> qu, ovfl |-> ov, scale |-> sc] :
        wi \in (-1)..MaxWI, wf \in 0..MaxWF, qu \in QUANTS, ov \in OVFLS,
        sc \in Scales}
      \cup {ExampleQ(ov) : ov \in {"sat", "wrap"}}

InitFixp == InitWith(FixpCtorObjs, {NoneV})

FixpOnce ==
    /\ call.op = "init"
    /\ \E y \in InputVals, scaling \in {"mult", "div"} : Fixp(Num(y), scaling)

NextFixp == FixpOnce \/ FixpAgain

SpecFixp == InitFixp /\ [][NextFixp]_vars

-----------------------------------------------------------------------------
(* Claims about fixp, checked under SpecFixp.                              *)

InRange(s, v) == RLe(s.MIN, v) /\ RLe(v, s.MAX)

FixpReturned == call.op = "fixp" /\ ~call.raised

\* the docstring example {WI:1, WF:6, quant:round}
IsExample(s) == s.WI = 1 /\ s.WF = 6 /\ s.quant = "round"

\* C1: under ovfl = sat or wrap, for either scaling mode, every value that
\* fixp returns lies in [MIN, MAX] of the current configuration.
C1_ReturnedInRange ==
    (FixpReturned /\ self.ovfl \in {"sat", "wrap"})
        => \A i \in 1..Len(Elems(call.ret)) : InRange(self, Elems(call.ret)[i])

\* C3: fixp applied to the result of fixp returns that result again, for
\* every configuration, scale # 1 included.
C3_Idempotent ==
    (FixpReturned /\ prev.op = "fixp") => call.ret = prev.ret

\* what C6 says fixp returns for the quantized value yq
SatExpected(s, yq) ==
    IF RGt(yq, s.MAX) THEN s.MAX ELSE IF RLt(yq, s.MIN) THEN s.MIN ELSE yq

\* C6: under ovfl = sat with scale = 1, fixp returns MAX when the quantized
\* value is above MAX, MIN when it is below MIN, else the quantized value;
\* {WI:1, WF:6, quant:round} has MAX = 1.984375, MIN = -2,
\* fixp(2.5) = 1.984375 and fixp(-3) = -2.
C6_Saturation ==
    (FixpReturned /\ self.ovfl = "sat" /\ self.scale = One) =>
        /\ call.ret = Num(SatExpected(self, Requant(self, call.arg.r, call.mode)))
        /\ IsExample(self) =>
              /\ self.MAX = Rat(127, 64) /\ self.MIN = IntR(-2)
              /\ call.arg = Num(Rat(5, 2)) => call.ret = Num(Rat(127, 64))
              /\ call.arg = Num(IntR(-3)) => call.ret = Num(IntR(-2))

\* C6 witness: the example call fixp(2.5) has returned MAX = 1.984375
C6_Witness ==
    /\ FixpReturned /\ prev = NoCall
    /\ self.ovfl = "sat" /\ self.scale = One /\ IsExample(self)
    /\ call.arg = Num(Rat(5, 2)) /\ call.ret = Num(Rat(127, 64))
    /\ self.ovr_flag = ScalarFlag(1)

\* r is in [MIN, MAX] and yq - r is an integer multiple of 4 * MSB
WrapsTo(s, yq, r) ==
    InRange(s, r) /\ IsInt(RDiv(RSub(yq, r), RMul(IntR(4), s.MSB)))

\* C7: under ovfl = wrap with scale = 1, a quantized value yq outside
\* [MIN, MAX] is returned as the r in [MIN, MAX] for which yq - r is an
\* integer multiple of 4 * MSB; {WI:1, WF:6, quant:round}: fixp(2.5) = -1.5.
C7_Wraparound ==
    (FixpReturned /\ self.ovfl = "wrap" /\ self.scale = One) =>
        /\ ~InRange(self, Requant(self, call.arg.r, call.mode)) =>
              WrapsTo(self, Requant(self, call.arg.r, call.mode), call.ret.r)
        /\ (IsExample(self) /\ call.arg = Num(Rat(5, 2)))
              => call.ret = Num(Rat(-3, 2))

-----------------------------------------------------------------------------
(* SpecCodec: one instance of any configuration and format,                *)
(* float2frmt(y) and then frmt2float(float2frmt(y)).                       *)

CodecCtorObjs ==
    {[WI |-> wi, WF |-> wf, quant |-> qu, ovfl |-> ov, frmt |-> fr, scale |-> sc] :
        wi \in 0..MaxWI, wf \in 0..MaxWF, qu \in QUANTS, ov \in OVFLS,
        sc \in Scales, fr \in FRMTS}
      \cup {[WI |-> 1, WF |-> 6, quant |-> "round", ovfl |-> "sat", frmt |-> fr] :
              fr \in FRMTS}

InitCodec == InitWith(CodecCtorObjs, {NoneV})

Float2frmtOnce ==
    /\ call.op = "init"
    /\ \E y \in InputVals : Float2frmt(y)

NextCodec == Float2frmtOnce \/ Frmt2floatBack

SpecCodec == InitCodec /\ [][NextCodec]_vars

\* v = k * LSB and MIN <= v <= MAX
Representable(s, v) == IsInt(RDiv(v, s.LSB)) /\ InRange(s, v)

\* C2: for every format and configuration, a value v that is a multiple of
\* LSB within [MIN, MAX] is converted by float2frmt to a text that
\* frmt2float converts back to exactly v.
C2_RoundTrip ==
    /\ (call.op = "float2frmt" /\ Representable(self, call.arg.r)) => ~call.raised
    /\ (call.op = "frmt2float" /\ prev.op = "float2frmt"
          /\ Representable(self, prev.arg.r))
         => (~call.raised /\ call.ret = prev.arg)

-----------------------------------------------------------------------------
(* SpecParse: frmt2float on arbitrary short texts.                         *)

MaxLen == 3

TextChars == {"0", "1", "F", "+", "-", ".", "|"}

Texts ==
    UNION {[1..k -> TextChars] : k \in 0..MaxLen}
      \cup {<<"1", "2", "X">>, <<"1", ",", "1">>, <<"X">>}

ParseCtorObjs ==
    {[WI |-> 1, WF |-> 1, quant |-> "round", ovfl |-> "sat", frmt |-> fr] :
        fr \in FRMTS}

InitParse == InitWith(ParseCtorObjs, {NoneV, Num(IntR(7))})

ParseText ==
    /\ call.op = "init"
    /\ \E t \in Texts, frmt \in FRMTS \cup {"None"} : Frmt2float(Str(t), frmt)

NextParse == ParseText

SpecParse == InitParse /\ [][NextParse]_vars

\* the format a frmt2float call works in
CallFrmt == IF call.mode = "None" THEN self.frmt ELSE call.mode

\* v is no [sign]digits[.digits] of the base
NoNumber(v, base) == ~ParseInt(RemoveChar(v, "."), base).ok \/ CountChar(v, ".") > 1

\* the cleaned text v is no number of the format (for csd: holds a character
\* other than + - 0 and the radix point)
UnparsableClean(frmt, v) ==
    \/ frmt = "dec" /\ ~ParseFloat(v).ok
    \/ frmt = "bin" /\ NoNumber(v, 2)
    \/ frmt = "hex" /\ NoNumber(v, 16)
    \/ frmt = "csd" /\ \E i \in 1..Len(v) : v[i] \notin {"+", "-", "0", "."}

\* nothing legal is left of the text, or what is left is no number
UnparsableKept(frmt, kept) == kept = <<>> \/ UnparsableClean(frmt, CleanStr(kept))

\* a text that is no number of the format
Unparsable(frmt, t) ==
    IF frmt = "float" THEN ~ParseFloat(t).ok
    ELSE UnparsableKept(frmt, KeepChars(t, FrmtAllowed(frmt)))

\* C10: frmt2float on a text that is no number of the format returns the
\* fallback value when there is one and 0 when there is none; it does not
\* raise and does not return None.
C10_ParseFailure ==
    (call.op = "frmt2float" /\ prev = NoCall /\ Unparsable(CallFrmt, call.arg.s))
        => (~call.raised /\ call.ret # NoneV /\ call.ret = Fallback(data_old))

-----------------------------------------------------------------------------
(* Spec: the life of one instance: fixp on scalars and on batches,         *)
(* float2frmt, frmt2float, setQobj and resetN in any order.  A call that   *)
(* could take the total counter above MaxCount is not made.                *)

\* the longest batch, and the cap of N_over
MaxBatch == 2
MaxCount == 3

\* below MIN, inside the range, the MAX of {WI:1, WF:1}, above MAX
LifeVals == {IntR(-3), Rat(1, 2), Rat(3, 2)}

Batches == UNION {[1..k -> LifeVals] : k \in 1..MaxBatch}

LifeTexts == {<<"0", "1", ".", "1">>, <<"0", "1", "1", "1">>}

LifeCtorObjs ==
    {[WI |-> 1, WF |-> 1, quant |-> "round", ovfl |-> ov, frmt |-> "bin"] :
        ov \in {"sat", "wrap"}}

LifeQobjs ==
    {[ovfl |-> "none"], [ovfl |-> "wrap"], [ovfl |-> "sat"], [WI |-> 0],
     [frmt |-> "dec"], [scale |-> IntR(2)]}

Init == InitWith(LifeCtorObjs, {NoneV})

\* room for n more overflows
Room(n) == self.N_over + n <= MaxCount

FixpScalar ==
    Room(1) /\ \E y \in LifeVals, scaling \in {"mult", "div"} : Fixp(Num(y), scaling)

FixpBatch ==
    \E a \in Batches, scaling \in {"mult", "div"} :
        Room(Len(a)) /\ Fixp(Arr(a), scaling)

Show == Room(1) /\ \E y \in LifeVals : Float2frmt(y)

Read == Room(1) /\ \E t \in LifeTexts : Frmt2float(Str(t), "None")

Reconfigure == \E q_obj \in LifeQobjs : SetQobj(q_obj)

Next == FixpScalar \/ FixpBatch \/ Show \/ Read \/ Reconfigure \/ ResetN

Spec == Init /\ [][Next]_vars

-----------------------------------------------------------------------------
(* Claims about the overflow flags and counters, checked under Spec.       *)

\* the flag C4 states for the quantized value yq
ExpectedFlag(s, yq) ==
    IF RGe(yq, s.MAX) THEN 1 ELSE IF RLt(yq, s.MIN) THEN -1 ELSE 0

\* the flags C4 states for a call with elements ys
ExpectedFlags(s, ys, scaling) ==
    [i \in 1..Len(ys) |-> ExpectedFlag(s, Requant(s, ys[i], scaling))]

\* how often flag f occurs
CountFlag(fs, f) == Cardinality({i \in 1..Len(fs) : fs[i] = f})

\* the counters of s1 are those of s0 advanced by p positive and n negative
\* overflows
Advanced(s0, s1, p, n) ==
    /\ s1.N_over_pos = s0.N_over_pos + p
    /\ s1.N_over_neg = s0.N_over_neg + n
    /\ s1.N_over = s0.N_over + p + n
    /\ s1.N_over = s1.N_over_pos + s1.N_over_neg

\* the flags of s1 are fs and its counters are those of s0 advanced by them
Accounted(s0, s1, fs) ==
    /\ s1.ovr_flag.f = fs
    /\ Advanced(s0, s1, CountFlag(fs, 1), CountFlag(fs, -1))

Counters(s) == <<s.N_over, s.N_over_pos, s.N_over_neg>>

\* no counter of s1 is below that of s0
NotBelow(s0, s1) == \A i \in 1..3 : Counters(s1)[i] >= Counters(s0)[i]

\* C5: in a sequence of fixp, float2frmt, frmt2float and setQobj calls none
\* of the three counters decreases from one step to the next, setQobj leaves
\* all three as they are, and only resetN brings them back to 0.
C5_Monotone ==
    [][ /\ call'.op # "resetN" => NotBelow(self, self')
        /\ call'.op = "setQobj" => Counters(self') = Counters(self)
      ]_vars

\* C5 witness: a setQobj call has been made on an instance that has counted
\* overflows, and the counts are still there
C5_Witness ==
    /\ call.op = "setQobj" /\ ~call.raised
    /\ self.N_over = MaxCount /\ self.N_over_pos > 0 /\ self.N_over_neg > 0

-----------------------------------------------------------------------------
(* SpecCfg: setQobj with valid and invalid option dicts, and fixp under the *)
(* configuration they leave.                                               *)

CfgCtorObjs ==
    {[WI |-> 1, WF |-> 1, quant |-> "round", ovfl |-> "sat", frmt |-> "dec"]}

CfgQobjs ==
    {[WI |-> 0],
     [Q |-> <<"2", ".", "1">>],
     [Q |-> <<"2", "1">>],
     [frmt |-> "oct"],
     [WI |-> 3, frmt |-> "oct"],
     [frmt |-> "HEX"],
     [quant |-> "foo"],
     [quant |-> "FLOOR"],
     [ovfl |-> "bar"],
     [ovfl |-> "Wrap"],
     [gain |-> 2],
     [WI |-> 0, bits |-> 8]}

CfgVals == {Rat(1, 2), IntR(-3)}

InitCfg == InitWith(CfgCtorObjs, {NoneV})

Configure == \E q_obj \in CfgQobjs : SetQobj(q_obj)

QuantizeOne == Room(1) /\ \E y \in CfgVals : Fixp(Num(y), "mult")

NextCfg == Configure \/ QuantizeOne

SpecCfg == InitCfg /\ [][NextCfg]_vars

\* the stored configuration fields
Config(s) ==
    <<s.WI, s.WF, s.W, s.quant, s.ovfl, s.frmt, s.scale, s.LSB, s.MSB, s.MAX,
      s.MIN, s.places, s.base>>

UnknownKey(q_obj) == DOMAIN q_obj \ KnownKeys # {}

\* q_obj supplies key k with a value that is not in the set
BadValue(q_obj, k, values) == k \in DOMAIN q_obj /\ Lower(q_obj[k]) \notin values

\* C8: a setQobj call with an unknown key or with an unrecognized frmt value
\* raises and leaves WI, WF, W, quant, ovfl, frmt, scale, LSB, MSB, MAX,
\* MIN, places and base as they were before the call.
C8_FailedSetAtomic ==
    [][ (call'.op = "setQobj"
           /\ (UnknownKey(call'.arg) \/ BadValue(call'.arg, "frmt", FRMTS)))
          => (call'.raised /\ Config(self') = Config(self))
      ]_vars

BadQ(q_obj) == "Q" \in DOMAIN q_obj /\ ~ParseQ(q_obj["Q"]).ok

\* q_obj has known keys only, no unparsable 'Q', and key k
Supplies(q_obj, k) == ~UnknownKey(q_obj) /\ ~BadQ(q_obj) /\ k \in DOMAIN q_obj

-----------------------------------------------------------------------------
(* SpecCsd: dec2csd(v, WF) on the multiples of 2 ** -WF, then csd2dec on   *)
(* its result.                                                             *)

\* WF in 0..MaxCsdWF, |v| <= MaxIn
MaxCsdWF == 3

\* the multiples of 2 ** -WF in [-MaxIn, MaxIn]
CsdVals(WF) == {Rat(n, 2 ^ WF) : n \in (-(MaxIn * 2 ^ WF))..(MaxIn * 2 ^ WF)}

\* the arguments of a dec2csd call
CsdArg(v, WF) == [k |-> "num", r |-> v, WF |-> WF]

\* the value csd2dec returns: None for an illegal character
CsdResult(c) == IF c.ok THEN Num(c.v) ELSE NoneV

\* a call of a module-level function: the instance is not involved
Pure(op, arg, ret, before) ==
    Step(op, arg, "", [self |-> self, raised |-> FALSE, ret |-> ret], before)

\* dec2csd(v, WF)
Dec2csd ==
    /\ call.op = "init"
    /\ \E WF \in 0..MaxCsdWF : \E v \in CsdVals(WF) :
          Pure("dec2csd", CsdArg(v, WF), Str(dec2csd(v, WF)), NoCall)

\* csd2dec(dec2csd(v, WF)): the second call
Csd2decBack ==
    /\ call.op = "dec2csd" /\ prev = NoCall
    /\ Pure("csd2dec", call.ret, CsdResult(csd2dec(call.ret.s)), call)

InitCsd == InitWith(CfgCtorObjs, {NoneV})

NextCsd == Dec2csd \/ Csd2decBack

SpecCsd == InitCsd /\ [][NextCsd]_vars

\* C11: for every WF >= 0 and every multiple v of 2 ** -WF, values with
\* 1/2 <= |v| < 1 included, csd2dec(dec2csd(v, WF)) = v.
C11_CsdRoundTrip ==
    (call.op = "csd2dec" /\ prev.op = "dec2csd") => call.ret = Num(prev.arg.r)

\* the digits of a CSD text, the radix point removed
CsdSymbols(t) == RemoveChar(t, ".")

NonZeroAt(d, i) == d[i] \in {"+", "-"}

\* no two neighbours of d are both '+' or '-'
NonAdjacent(d) == \A i \in 1..(Len(d) - 1) : ~(NonZeroAt(d, i) /\ NonZeroAt(d, i + 1))

\* C12: the digits of dec2csd(v, WF), read without the radix point, never
\* hold two consecutive non-zero symbols.
C12_NonAdjacent ==
    call.op = "dec2csd" => NonAdjacent(CsdSymbols(call.ret.s))

\* C12 witness: dec2csd(0.75, 2) has returned a text with a non-zero digit
\* right after the radix point and a '0' forced after it
C12_Witness ==
    /\ call.op = "dec2csd" /\ call.arg = CsdArg(Rat(3, 4), 2)
    /\ call.ret = Str(<<"0", ".", "+", "0">>)

-----------------------------------------------------------------------------
(* Claims about the text float2frmt produces, checked under SpecCodec.     *)

\* the text C13 states for the quantized value y_fix: the decimal integer
\* y_fix / LSB
DecAsStated(s, y_fix, ret) ==
    IsInt(RDiv(y_fix, s.LSB)) => ret = Str(IntStr(RDiv(y_fix, s.LSB).n))

ReadsAs(t, v) == ParseFloat(t).ok /\ ParseFloat(t).v = v

\* the dec text of the quantized value y_fix as C13 amended states it
DecAsAmended(s, y_fix, t) ==
    IF s.WF = 0 THEN ReadsAs(t, RFix(y_fix)) /\ CountChar(t, ".") = 0
    ELSE ReadsAs(t, y_fix) /\ CountChar(t, ".") = 1

-----------------------------------------------------------------------------
(* SpecSet: Fixed(q_obj) and then any sequence of setQobj calls whose      *)
(* values lie in the documented domains, so that every call succeeds.      *)

SetWIs == {-1, 0, 1}
SetWFs == {1, 2, 3}

\* the 'Q' string of a word format
QText(WI, WF) == IntStr(WI) \o <<".">> \o IntStr(WF)

SetQobjs ==
    {[WI |-> -1], [WI |-> 1], [WF |-> 1], [WF |-> 2],
     [quant |-> "floor"], [quant |-> "fix"],
     [ovfl |-> "wrap"], [ovfl |-> "none"],
     [frmt |-> "dec"], [frmt |-> "hex"],
     [scale |-> IntR(2)],
     [Q |-> QText(1, 2)], [Q |-> QText(-1, 1)],
     [WI |-> 1, WF |-> 1, Q |-> QText(0, 3)],
     [WI |-> 0, WF |-> 2, frmt |-> "bin"]}

\* Fixed(q_obj), the call record holding the constructor's argument
InitSet ==
    /\ \E q_obj \in SetQobjs \cup {[k \in {} |-> 0]} :
          /\ self = Constructed(q_obj)
          /\ call = Call("init", q_obj, "", NoneV, setQobj(NoAttrs, q_obj, TRUE).raised)
    /\ prev = NoCall
    /\ data_old = NoneV

SetAny == \E q_obj \in SetQobjs : SetQobj(q_obj)

NextSet == SetAny

SpecSet == InitSet /\ [][NextSet]_vars

\* the word format a 'Q' string supplies
QFormat(Q) == CHOOSE p \in SetWIs \X SetWFs : Q = QText(p[1], p[2])

\* the value the call with q_obj leaves for key k: the one it supplies, 'Q'
\* supplying WI and WF first, else the one held before
Requested(q_obj, k, old) ==
    IF "Q" \in DOMAIN q_obj /\ k = "WI" THEN QFormat(q_obj.Q)[1]
    ELSE IF "Q" \in DOMAIN q_obj /\ k = "WF" THEN QFormat(q_obj.Q)[2]
    ELSE IF k \in DOMAIN q_obj THEN q_obj[k]
    ELSE old[k]

LatestSupplied(s, q_obj, old) ==
    \A k \in DOMAIN q_obj_default : s[k] = Requested(q_obj, k, old)

DerivedFields(s) ==
    /\ s.W = s.WI + s.WF + 1
    /\ s.LSB = Pow2(-s.WF)
    /\ s.MSB = Pow2(s.WI - 1)
    /\ s.MAX = RSub(RMul(IntR(2), s.MSB), s.LSB)
    /\ s.MIN = RNeg(RMul(IntR(2), s.MSB))

-----------------------------------------------------------------------------
(* SpecNone: an instance that counts overflows under ovfl = sat and is     *)
(* then switched to ovfl = none, by a setQobj call that succeeds or by one *)
(* that fails at the format after storing ovfl; scalar and batch fixp      *)
(* calls in between.                                                       *)

NoneCtorObjs ==
    {[WI |-> 1, WF |-> 1, quant |-> q, ovfl |-> "sat", frmt |-> "bin", scale |-> sc] :
        q \in {"round", "floor", "none"}, sc \in {One, IntR(2)}}

NoneQobjs == {[ovfl |-> "none"], [ovfl |-> "sat"], [ovfl |-> "none", frmt |-> "oct"]}

NoneVals == {IntR(-3), Rat(5, 4), IntR(3)}

InitNone == InitWith(NoneCtorObjs, {NoneV})

SetOvfl == \E q_obj \in NoneQobjs : SetQobj(q_obj)

NoneScalar ==
    Room(1) /\ \E y \in NoneVals, scaling \in {"mult", "div"} : Fixp(Num(y), scaling)

NoneBatch ==
    Room(2) /\ \E a \in [1..2 -> NoneVals], scaling \in {"mult", "div"} :
                  Fixp(Arr(a), scaling)

NextNone == SetOvfl \/ NoneScalar \/ NoneBatch

SpecNone == InitNone /\ [][NextNone]_vars

\* q is the requantization of x: x itself for quant = none, else a multiple
\* of LSB less than one LSB away from x
UnclampedAt(s, x, q) ==
    IF s.quant = "none" THEN q = x
    ELSE IsInt(RDiv(q, s.LSB)) /\ RLt(RAbs(RSub(q, x)), s.LSB)

\* r is what fixp returns for y when nothing is clamped
Unclamped(s, y, mode, r) ==
    UnclampedAt(s, IF mode = "mult" THEN RMul(y, s.scale) ELSE y,
                IF mode = "div" THEN RMul(r, s.scale) ELSE r)

AllUnclamped(s, ys, mode, rs) ==
    /\ Len(rs) = Len(ys)
    /\ \A i \in 1..Len(ys) : Unclamped(s, ys[i], mode, rs[i])

\* the flag without overflow for the argument y
ZeroFlag(y) ==
    IF y.k = "arr" THEN ArrayFlag([i \in 1..Len(y.a) |-> 0]) ELSE ScalarFlag(0)

\* C15 as stated: under ovfl = none fixp returns the quantized value
\* unclamped, and flag and counters after the call equal those before it.
C15_NoneUntouched ==
    [][(call'.op = "fixp" /\ self.ovfl = "none") =>
          /\ ~call'.raised
          /\ AllUnclamped(self, Elems(call'.arg), call'.mode, Elems(call'.ret))
          /\ Counters(self') = Counters(self)
          /\ self'.ovr_flag = self.ovr_flag]_vars

\* C15 amended: under ovfl = none fixp returns the quantized value
\* unclamped and leaves the three counters as they were; the flag is not
\* kept but cleared: 0 after a scalar call, zeros of the argument's shape
\* after a batch call.
C15_NoneUncounted ==
    [][(call'.op = "fixp" /\ self.ovfl = "none") =>
          /\ ~call'.raised
          /\ AllUnclamped(self, Elems(call'.arg), call'.mode, Elems(call'.ret))
          /\ Counters(self') = Counters(self)
          /\ self'.ovr_flag = ZeroFlag(call'.arg)]_vars

\* C15 witness: with overflows counted before, a call under ovfl = none has
\* returned a value above MAX
C15_Witness ==
    /\ call.op = "fixp" /\ ~call.raised /\ self.ovfl = "none"
    /\ call.arg = Num(IntR(3)) /\ call.mode = "mult"
    /\ RGt(call.ret.r, self.MAX)
    /\ self.N_over > 0 /\ self.ovr_flag = ScalarFlag(0)

-----------------------------------------------------------------------------
(* SpecHex: bin2hex on every bit string of up to MaxBits characters.       *)

MaxBits == 6

BitStrings == UNION {[1..n -> {"0", "1"}] : n \in 1..MaxBits}

InitHex == InitWith(CfgCtorObjs, {NoneV})

Bin2hex ==
    \E bin_str \in BitStrings :
        Pure("bin2hex", Str(bin_str), Str(bin2hex(bin_str)), NoCall)

NextHex == Bin2hex

SpecHex == InitHex /\ [][NextHex]_vars

\* h is the uppercase hexadecimal numeral of n without leading zeros
HexNumeral(h, n) ==
    /\ h # <<>>
    /\ \A i \in 1..Len(h) : \E j \in 1..16 : h[i] = HexDigits[j]
    /\ Len(h) > 1 => h[1] # "0"
    /\ DigitsVal(h, 16) = n

\* C16: for every non-empty bit string b, bin2hex(b) is the uppercase hex
\* numeral without leading zeros of the number b denotes in base 2, so that
\* it reads in base 16 as b reads in base 2; bin2hex("0101") = "5".
C16_Bin2hexValue ==
    call.op = "bin2hex" =>
        /\ HexNumeral(call.ret.s, DigitsVal(call.arg.s, 2))
        /\ call.arg.s = <<"0", "1", "0", "1">> => call.ret.s = <<"5">>

-----------------------------------------------------------------------------
\* the value frmt2float returns for the text y when the digits are read in
\* the base of the format frmt
ReadInBaseOf(s, y, frmt, fb) ==
    frmt2float([s EXCEPT !.base = BaseOf(frmt)], y, frmt, fb).ret

\* C17: frmt2float(text, format) with format bin or hex passed explicitly
\* reads the digits in the base of that format (2 or 16), whatever frmt the
\* configuration holds.
C17_BaseOfArgument ==
    (call.op = "frmt2float" /\ call.mode \in {"bin", "hex"}) =>
        /\ ~call.raised
        /\ call.ret = ReadInBaseOf(self, call.arg, call.mode, data_old)

=============================================================================
